---- MODULE Spec2Model ----
(***************************************************************************)
(* gitkick (kk): the squash / clean / commitall workflows of main.go,      *)
(* modelled over a git repository: a commit store, local refs, the         *)
(* checked-out branch, the index / working tree and the remote.            *)
(* Every gateway call (one git subprocess) is one step; it either exits    *)
(* zero or non-zero.  Branch names and commit messages are sequences of    *)
(* one-character strings.                                                  *)
(***************************************************************************)
EXTENDS Integers, Sequences, FiniteSets, TLC

\* ------------------------------------------------------------- bounds
\* commands the user runs in one behaviour
MaxRuns == 2
\* seconds the wall clock may advance
MaxClock == 1
\* commits of the feature branch on top of the root commit
MaxAhead == 2

\* ------------------------------------------------------------- strings
Letters == {"a", "b", "c", "d", "e", "f", "k", "l", "m", "o", "p", "v", "x"}
Digits == {"0", "1", "2", "3", "4", "5", "6", "7", "8", "9"}
DigitChar == <<"0", "1", "2", "3", "4", "5", "6", "7", "8", "9">>

\* the literal "kk-fallback" of Squash and CleanFallbackBranches
KkFallback == <<"k", "k", "-", "f", "a", "l", "l", "b", "a", "c", "k">>
\* the default comparison branch of main
Develop == <<"d", "e", "v", "e", "l", "o", "p">>
\* a branch name git does not know
Unknown == <<"x">>
\* a feature branch of the shape <letters>-<digits>-<rest>
Feature == <<"c", "-", "1", "-", "f", "-", "b">>
\* a branch of another shape
Plain == <<"m", "v">>
\* a text given with -m
Msg == <<"m">>

\* strings.HasPrefix / the glob prefix* of git branch --list
HasPrefix(s, p) == Len(s) >= Len(p) /\ SubSeq(s, 1, Len(p)) = p

\* byte order of the characters that occur in branch names
Ord(ch) ==
  CASE ch = " " -> 32
    [] ch = "\n" -> 10
    [] ch = "*" -> 42
    [] ch = "-" -> 45
    [] ch = "/" -> 47
    [] ch \in Digits -> 48 + (CHOOSE i \in 0..9 : DigitChar[i + 1] = ch)
    [] ch = "a" -> 97 [] ch = "b" -> 98 [] ch = "c" -> 99 [] ch = "d" -> 100
    [] ch = "e" -> 101 [] ch = "f" -> 102 [] ch = "k" -> 107 [] ch = "l" -> 108
    [] ch = "m" -> 109 [] ch = "o" -> 111 [] ch = "p" -> 112
    [] ch = "v" -> 118 [] ch = "x" -> 120
    [] OTHER -> 127

RECURSIVE LexLess(_, _)
LexLess(s, t) ==
  IF s = <<>> THEN t # <<>>
  ELSE IF t = <<>> THEN FALSE
  ELSE IF Head(s) = Head(t) THEN LexLess(Tail(s), Tail(t))
  ELSE Ord(Head(s)) < Ord(Head(t))

\* the names of a set in refname order, as git branch --list prints them
RECURSIVE SortNames(_)
SortNames(S) ==
  IF S = {} THEN <<>>
  ELSE LET m == CHOOSE x \in S : \A y \in S \ {x} : LexLess(x, y)
       IN <<m>> \o SortNames(S \ {m})

\* strings.TrimSpace
White == {" ", "\n"}
RECURSIVE TrimLeft(_)
TrimLeft(s) == IF s # <<>> /\ Head(s) \in White THEN TrimLeft(Tail(s)) ELSE s
RECURSIVE TrimRight(_)
TrimRight(s) ==
  IF s # <<>> /\ s[Len(s)] \in White
  THEN TrimRight(SubSeq(s, 1, Len(s) - 1)) ELSE s
TrimSpace(s) == TrimRight(TrimLeft(s))

\* strings.TrimPrefix(line, "*")
TrimPrefixStar(s) == IF s # <<>> /\ Head(s) = "*" THEN Tail(s) ELSE s

\* time.Now().Format("2006-01-02-15-04-05"): the clock reading at second
\* resolution; within MaxClock only the seconds field "05" varies
Two(n) == <<DigitChar[((n \div 10) % 10) + 1], DigitChar[(n % 10) + 1]>>
generateTimestamp(now) == Two(now \div 60) \o <<"-">> \o Two(now % 60)

\* fmt.Sprintf("%s-%s-%s", "kk-fallback", currentBranch, ts)
FallbackName(cur, ts) == KkFallback \o <<"-">> \o cur \o <<"-">> \o ts

\* The commit-message convention "<letters>[/-]<digits>-<rest>" gives
\* "[<letters>-<digits>] <rest with '-' as ' '>": the text the commit workflows
\* are compared against.
RECURSIVE RunLen(_, _)
RunLen(s, class) ==
  IF s # <<>> /\ Head(s) \in class THEN 1 + RunLen(Tail(s), class) ELSE 0
From(s, i) == SubSeq(s, i, Len(s))
Conventional(name) ==
  LET l == RunLen(name, Letters)
      d == RunLen(From(name, l + 2), Digits)
  IN /\ l > 0
     /\ Len(name) > l
     /\ name[l + 1] \in {"/", "-"}
     /\ d > 0
     /\ Len(name) > l + 1 + d + 1
     /\ name[l + 1 + d + 1] = "-"
DerivedMessage(name) ==
  IF ~Conventional(name) THEN name
  ELSE LET l == RunLen(name, Letters)
           d == RunLen(From(name, l + 2), Digits)
           rest == From(name, l + d + 3)
       IN <<"[">> \o SubSeq(name, 1, l) \o <<"-">> \o
          SubSeq(name, l + 2, l + 1 + d) \o <<"]", " ">> \o
          [i \in 1..Len(rest) |-> IF rest[i] = "-" THEN " " ELSE rest[i]]

\* ------------------------------------------------------------- state
VARIABLES
  commits,           \* git objects: commit id -> [parent, msg]; parent 0 = none
  refs,              \* local branches: name -> commit id
  head,              \* the checked-out branch
  staged,            \* the index differs from HEAD
  unstaged,          \* the working tree differs from the index
  remote,            \* origin: name -> commit id
  clock,             \* wall clock, seconds
  pc,                \* position of the running command; "idle" = none running,
                     \* "done" = the workflow has returned to main
  command,           \* os.Args[1] of the running / last process, "none" at first
  comparableBranch,  \* Squash argument
  forcePush,         \* Squash argument
  commitMessage,     \* Squash argument
  currentBranch,     \* local of Squash / CommitAll (branch)
  diff,              \* local of Squash
  fallbackBranch,    \* local of Squash
  message,           \* local of Squash
  branches,          \* local of CleanFallbackBranches: the listed names
  next,              \* position of CleanFallbackBranches' range loop
  result,            \* what the workflow returned: "none", "ok", "err"
  exitCode,          \* the exit code main ends with
  logged,            \* "total deleted" logged by clean, -1 = none
  calls,             \* gateway calls of the running command, in order
  entry,             \* the repository when the running command began
  prev,              \* the command that ran before: what and how it ended
  runs               \* commands started

repo == <<commits, refs, head, staged, unstaged, remote>>
args == <<command, comparableBranch, forcePush, commitMessage>>
locals == <<currentBranch, diff, fallbackBranch, message, branches, next>>
vars == <<commits, refs, head, staged, unstaged, remote, clock, pc,
          command, comparableBranch, forcePush, commitMessage, currentBranch, diff,
          fallbackBranch, message, branches, next, result, exitCode, logged,
          calls, entry, prev, runs>>

Snapshot == [commits |-> commits, refs |-> refs, head |-> head,
             staged |-> staged, unstaged |-> unstaged, remote |-> remote]

\* ------------------------------------------------------------- git
\* the commits reachable from c by parent links
RECURSIVE Ancestors(_, _)
Ancestors(cs, c) == IF c = 0 THEN {} ELSE {c} \cup Ancestors(cs, cs[c].parent)

\* HEAD~n along first parents; 0 when the history is shorter
RECURSIVE NthAncestor(_, _, _)
NthAncestor(cs, c, n) ==
  IF c = 0 \/ n = 0 THEN c ELSE NthAncestor(cs, cs[c].parent, n - 1)

\* git cherry -v <target>: one line per commit of HEAD that target lacks
CherryLines(cs, rf, hd, target) ==
  LET S == Ancestors(cs, rf[hd]) \ Ancestors(cs, rf[target])
  IN [i \in 1..Cardinality(S) |-> i]

\* git status --porcelain: one line per changed path, empty when clean
StatusOutput(st, un) ==
  (IF st THEN <<"M", " ", " ", "f", "\n">> ELSE <<>>) \o
  (IF un THEN <<" ", "M", " ", "g", "\n">> ELSE <<>>)

\* git branch --list <prefix>*: a marker column, then the name
BranchListLines(rf, hd, prefix) ==
  LET names == SortNames({b \in DOMAIN rf : HasPrefix(b, prefix)})
  IN [i \in 1..Len(names) |->
        (IF names[i] = hd THEN <<"*", " ">> ELSE <<" ", " ">>) \o names[i]]

\* a function with one more key
Put(f, k, v) == [x \in DOMAIN f \cup {k} |-> IF x = k THEN v ELSE f[x]]
\* a function with one key fewer
Drop(f, k) == [x \in DOMAIN f \ {k} |-> f[x]]

Call(op, ok) == [op |-> op, ok |-> ok]

\* ------------------------------------------------------------- gateway
\* Each operation is one git subprocess.  <Op>Can is git's own condition for
\* exit status zero; <Op> is its effect on the repository when it exits zero.

\* git branch --show-current, trimmed
GetCurrentBranchName == TrimSpace(head \o <<"\n">>)

\* git branch <name>: a new ref at HEAD's commit, HEAD stays where it is
NewBranchCan(name) == name \notin DOMAIN refs
\* faulty variant: git checkout -b <name>, which also moves HEAD to the new ref
CheckoutNewBranch(name) ==
  /\ refs' = Put(refs, name, refs[head])
  /\ head' = name
  /\ UNCHANGED <<commits, staged, unstaged, remote>>
\* git branch <name>
NewBranch(name) ==
  /\ refs' = Put(refs, name, refs[head])
  /\ UNCHANGED <<commits, head, staged, unstaged, remote>>

\* git cherry -v <target>, the number of its lines
GetCommitsDiffCountCan(targetBranch) == targetBranch \in DOMAIN refs
GetCommitsDiffCount(targetBranch) ==
  LET lines == CherryLines(commits, refs, head, targetBranch)
  IN IF lines = <<>> THEN 0 ELSE Len(lines)

\* git commit -m <message>: fails when nothing is staged
CommitCan == staged
Commit(m) ==
  /\ commits' = Append(commits, [parent |-> refs[head], msg |-> m])
  /\ refs' = [refs EXCEPT ![head] = Len(commits) + 1]
  /\ staged' = FALSE
  /\ UNCHANGED <<head, unstaged, remote>>

\* git push --force --set-upstream origin <branchName>
PushForce(branchName) ==
  /\ remote' = Put(remote, branchName, refs[branchName])
  /\ UNCHANGED <<commits, refs, head, staged, unstaged>>

\* git reset --soft HEAD~<n>: the branch moves back, the undone commits'
\* changes stay in the index
ResetSoftCan(commitsFromHead) ==
  NthAncestor(commits, refs[head], commitsFromHead) # 0
ResetSoft(commitsFromHead) ==
  /\ refs' = [refs EXCEPT
                ![head] = NthAncestor(commits, refs[head], commitsFromHead)]
  /\ staged' = (staged \/ commitsFromHead > 0)
  /\ UNCHANGED <<commits, head, unstaged, remote>>

\* git add .
AddAll ==
  /\ staged' = (staged \/ unstaged)
  /\ unstaged' = FALSE
  /\ UNCHANGED <<commits, refs, head, remote>>

\* git branch -D <branchName>: git refuses the checked-out branch
DeleteLocalBranchCan(branchName) ==
  branchName \in DOMAIN refs /\ branchName # head
DeleteLocalBranch(branchName) ==
  /\ refs' = Drop(refs, branchName)
  /\ UNCHANGED <<commits, head, staged, unstaged, remote>>

\* git status --porcelain
StatusWithPorcelain == StatusOutput(staged, unstaged)

\* git branch --list <prefix>*, each line without its marker and trimmed
ParseBranchLine(line) == TrimSpace(TrimPrefixStar(line))
\* faulty variant: the first line is lost
ListBranchesWithPrefixButFirst(prefix) ==
  LET lines == BranchListLines(refs, head, prefix)
      parsed == [i \in 1..Len(lines) |-> ParseBranchLine(lines[i])]
  IN IF parsed = <<>> THEN <<>> ELSE Tail(parsed)
\* ListBranchesWithPrefix: the non-empty parsed lines
ListBranchesWithPrefix(prefix) ==
  LET lines == BranchListLines(refs, head, prefix)
      parsed == [i \in 1..Len(lines) |-> ParseBranchLine(lines[i])]
  IN SelectSeq(parsed, LAMBDA b : b # <<>>)

\* ------------------------------------------------------------- main
\* what the process leaves behind when the workflow returns r
ExitCode(r) == IF r = "err" THEN 1 ELSE 0

\* main: a new process starts the workflow named by os.Args[1]
Start(cmd, first) ==
  /\ pc = "idle"
  /\ runs < MaxRuns
  /\ runs' = runs + 1
  /\ command' = cmd
  /\ pc' = first
  /\ entry' = Snapshot
  /\ UNCHANGED <<repo, clock, locals, result, exitCode, logged, calls, prev>>

\* a gateway call op has returned (ok: without error) and the workflow goes on
Goto(op, ok, to) ==
  /\ calls' = Append(calls, Call(op, ok))
  /\ pc' = to
  /\ UNCHANGED <<result, exitCode, args, entry, prev, runs>>

\* a gateway call op has returned and the workflow returns r to main
Return(op, ok, r) ==
  /\ calls' = Append(calls, Call(op, ok))
  /\ pc' = "done"
  /\ result' = r
  /\ exitCode' = ExitCode(r)
  /\ UNCHANGED <<args, entry, prev, runs>>

\* ------------------------------------------------------------- Squash
\* kk squash [--compare b] [--push-force] [-m text]
InvokeSquash ==
  \E cmp \in {Develop, head, Unknown}, fp \in BOOLEAN, m \in {<<>>, Msg} :
    /\ Start("squash", "sq_status")
    /\ comparableBranch' = cmp
    /\ forcePush' = fp
    /\ commitMessage' = m

\* faulty variant: the clean-tree check left out
NotCleanAlways(status) == FALSE
\* strings.TrimSpace(status) != ""
NotClean(status) == TrimSpace(status) # <<>>

\* status, err := s.git.StatusWithPorcelain() and the clean-tree check
SquashStatus ==
  /\ pc = "sq_status"
  /\ UNCHANGED clock
  /\ UNCHANGED <<repo, locals, logged>>
  /\ \E exit0 \in BOOLEAN :
       IF ~exit0 THEN Return("StatusWithPorcelain", FALSE, "err")
       ELSE IF NotClean(StatusWithPorcelain)
       THEN Return("StatusWithPorcelain", TRUE, "err")
       ELSE Goto("StatusWithPorcelain", TRUE, "sq_branch")

\* currentBranch, err := s.git.GetCurrentBranchName() and the
\* comparableBranch == currentBranch check
SquashCurrentBranch ==
  /\ pc = "sq_branch"
  /\ UNCHANGED clock
  /\ UNCHANGED <<repo, diff, fallbackBranch, message, branches, next, logged>>
  /\ \E exit0 \in BOOLEAN :
       IF ~exit0
       THEN /\ Return("GetCurrentBranchName", FALSE, "err")
            /\ UNCHANGED currentBranch
       ELSE /\ currentBranch' = GetCurrentBranchName
            /\ IF comparableBranch = GetCurrentBranchName
               THEN Return("GetCurrentBranchName", TRUE, "err")
               ELSE Goto("GetCurrentBranchName", TRUE, "sq_count")

\* faulty variant: diff < 1
NothingToSquashZero(d) == d <= 0
\* diff <= 1
NothingToSquash(d) == d <= 1

\* faulty variant: return nil
CountErrorSwallowed == "ok"
\* what Squash returns when the count cannot be computed: return err
CountError == "err"

\* diff, err := s.git.GetCommitsDiffCount(comparableBranch) and the
\* diff <= 1 check
SquashCount ==
  /\ pc = "sq_count"
  /\ UNCHANGED clock
  /\ UNCHANGED <<repo, currentBranch, fallbackBranch, message, branches,
                 next, logged>>
  /\ \E exit0 \in BOOLEAN :
       IF ~(exit0 /\ GetCommitsDiffCountCan(comparableBranch))
       THEN /\ Return("GetCommitsDiffCount", FALSE, CountError)
            /\ UNCHANGED diff
       ELSE /\ diff' = GetCommitsDiffCount(comparableBranch)
            /\ IF NothingToSquash(GetCommitsDiffCount(comparableBranch))
               THEN Return("GetCommitsDiffCount", TRUE, "ok")
               ELSE Goto("GetCommitsDiffCount", TRUE, "sq_newbranch")

\* faulty variant: the error of s.git.NewBranch is not checked
SquashNewBranchUnchecked ==
  /\ pc = "sq_newbranch"
  /\ UNCHANGED <<currentBranch, diff, message, branches, next, logged>>
  /\ \E now \in clock..MaxClock, exit0 \in BOOLEAN :
       /\ clock' = now
       /\ fallbackBranch' = FallbackName(currentBranch, generateTimestamp(now))
       /\ IF ~(exit0 /\ NewBranchCan(fallbackBranch'))
          THEN /\ Goto("NewBranch", FALSE, "sq_reset")
               /\ UNCHANGED repo
          ELSE /\ NewBranch(fallbackBranch')
               /\ Goto("NewBranch", TRUE, "sq_reset")

\* ts := generateTimestamp(); err = s.git.NewBranch(fallbackBranch)
\* time.Now() reads the wall clock, which never runs backwards
SquashNewBranch ==
  /\ pc = "sq_newbranch"
  /\ UNCHANGED <<currentBranch, diff, message, branches, next, logged>>
  /\ \E now \in clock..MaxClock, exit0 \in BOOLEAN :
       /\ clock' = now
       /\ fallbackBranch' = FallbackName(currentBranch, generateTimestamp(now))
       /\ IF ~(exit0 /\ NewBranchCan(fallbackBranch'))
          THEN /\ Return("NewBranch", FALSE, "err")
               /\ UNCHANGED repo
          ELSE /\ NewBranch(fallbackBranch')
               /\ Goto("NewBranch", TRUE, "sq_reset")

\* err = s.git.ResetSoft(diff)
SquashResetSoft ==
  /\ pc = "sq_reset"
  /\ UNCHANGED clock
  /\ UNCHANGED <<locals, logged>>
  /\ \E exit0 \in BOOLEAN :
       IF ~(exit0 /\ ResetSoftCan(diff))
       THEN /\ Return("ResetSoft", FALSE, "err")
            /\ UNCHANGED repo
       ELSE /\ ResetSoft(diff)
            /\ Goto("ResetSoft", TRUE, "sq_add")

\* what Squash returns when staging fails: return nil
AddAllError == "ok"

\* err = s.git.AddAll(); if err != nil { return nil }
SquashAddAll ==
  /\ pc = "sq_add"
  /\ UNCHANGED clock
  /\ UNCHANGED <<locals, logged>>
  /\ \E exit0 \in BOOLEAN :
       IF ~exit0
       THEN /\ Return("AddAll", FALSE, AddAllError)
            /\ UNCHANGED repo
       ELSE /\ AddAll
            /\ Goto("AddAll", TRUE, "sq_commit")

\* the text Squash hands to s.git.Commit
SquashCommitArg(msg, cur) == cur

\* message := commitMessage, or currentBranch when empty;
\* err = s.git.Commit(currentBranch); then the forcePush check
SquashCommit ==
  /\ pc = "sq_commit"
  /\ UNCHANGED clock
  /\ message' = (IF commitMessage = <<>> THEN currentBranch ELSE commitMessage)
  /\ UNCHANGED <<currentBranch, diff, fallbackBranch, branches, next, logged>>
  /\ \E exit0 \in BOOLEAN :
       IF ~(exit0 /\ CommitCan)
       THEN /\ Return("Commit", FALSE, "err")
            /\ UNCHANGED repo
       ELSE /\ Commit(SquashCommitArg(message', currentBranch))
            /\ IF forcePush THEN Goto("Commit", TRUE, "sq_push")
               ELSE Return("Commit", TRUE, "ok")

\* err = s.git.PushForce(currentBranch)
SquashPushForce ==
  /\ pc = "sq_push"
  /\ UNCHANGED clock
  /\ UNCHANGED <<locals, logged>>
  /\ \E exit0 \in BOOLEAN :
       IF ~exit0
       THEN /\ Return("PushForce", FALSE, "err")
            /\ UNCHANGED repo
       ELSE /\ PushForce(currentBranch)
            /\ Return("PushForce", TRUE, "ok")

\* ------------------------------------------------------------- Clean
\* kk clean
InvokeClean ==
  /\ Start("clean", "cl_list")
  /\ UNCHANGED <<comparableBranch, forcePush, commitMessage>>

\* branches, err := s.git.ListBranchesWithPrefix("kk-fallback") and the
\* len(branches) == 0 check
CleanList ==
  /\ pc = "cl_list"
  /\ UNCHANGED clock
  /\ UNCHANGED <<repo, currentBranch, diff, fallbackBranch, message, next,
                 logged>>
  /\ \E exit0 \in BOOLEAN :
       IF ~exit0
       THEN /\ Return("ListBranchesWithPrefix", FALSE, "err")
            /\ UNCHANGED branches
       ELSE /\ branches' = ListBranchesWithPrefix(KkFallback)
            /\ IF Len(branches') = 0
               THEN Return("ListBranchesWithPrefix", TRUE, "ok")
               ELSE Goto("ListBranchesWithPrefix", TRUE, "cl_delete")

\* one pass of the range loop: s.git.DeleteLocalBranch(branch); after the
\* last pass the total is logged
CleanDelete ==
  /\ pc = "cl_delete"
  /\ UNCHANGED clock
  /\ UNCHANGED <<currentBranch, diff, fallbackBranch, message, branches>>
  /\ \E exit0 \in BOOLEAN :
       IF ~(exit0 /\ DeleteLocalBranchCan(branches[next]))
       THEN /\ Return("DeleteLocalBranch", FALSE, "err")
            /\ UNCHANGED <<repo, next, logged>>
       ELSE /\ DeleteLocalBranch(branches[next])
            /\ next' = next + 1
            /\ IF next = Len(branches)
               THEN /\ logged' = Len(branches)
                    /\ Return("DeleteLocalBranch", TRUE, "ok")
               ELSE /\ UNCHANGED logged
                    /\ Goto("DeleteLocalBranch", TRUE, "cl_delete")

\* ------------------------------------------------------------- CommitAll
\* kk commitall
InvokeCommitAll ==
  /\ Start("commitall", "ca_branch")
  /\ UNCHANGED <<comparableBranch, forcePush, commitMessage>>

\* branch, err := s.git.GetCurrentBranchName()
CommitAllCurrentBranch ==
  /\ pc = "ca_branch"
  /\ UNCHANGED clock
  /\ UNCHANGED <<repo, diff, fallbackBranch, message, branches, next, logged>>
  /\ \E exit0 \in BOOLEAN :
       IF ~exit0
       THEN /\ Return("GetCurrentBranchName", FALSE, "err")
            /\ UNCHANGED currentBranch
       ELSE /\ currentBranch' = GetCurrentBranchName
            /\ Goto("GetCurrentBranchName", TRUE, "ca_add")

\* s.git.AddAll()
CommitAllAddAll ==
  /\ pc = "ca_add"
  /\ UNCHANGED clock
  /\ UNCHANGED <<locals, logged>>
  /\ \E exit0 \in BOOLEAN :
       IF ~exit0
       THEN /\ Return("AddAll", FALSE, "err")
            /\ UNCHANGED repo
       ELSE /\ AddAll
            /\ Goto("AddAll", TRUE, "ca_commit")

\* the text CommitAll hands to s.git.Commit
CommitAllArg(branch) == branch

\* s.git.Commit(branch)
CommitAllCommit ==
  /\ pc = "ca_commit"
  /\ UNCHANGED clock
  /\ UNCHANGED <<locals, logged>>
  /\ \E exit0 \in BOOLEAN :
       IF ~(exit0 /\ CommitCan)
       THEN /\ Return("Commit", FALSE, "err")
            /\ UNCHANGED repo
       ELSE /\ Commit(CommitAllArg(currentBranch))
            /\ Return("Commit", TRUE, "ok")

\* main returns or calls os.Exit(1): the process and its memory are gone, the
\* repository stays; the shell keeps what was run and how it ended
Exit ==
  /\ pc = "done"
  /\ pc' = "idle"
  /\ prev' = [command |-> command, comparableBranch |-> comparableBranch,
              head |-> entry.head, result |-> result]
  /\ command' = "none"
  /\ comparableBranch' = <<>>
  /\ forcePush' = FALSE
  /\ commitMessage' = <<>>
  /\ currentBranch' = <<>>
  /\ diff' = 0
  /\ fallbackBranch' = <<>>
  /\ message' = <<>>
  /\ branches' = <<>>
  /\ next' = 1
  /\ result' = "none"
  /\ exitCode' = 0
  /\ logged' = -1
  /\ calls' = <<>>
  /\ entry' = Snapshot
  /\ UNCHANGED <<repo, clock, runs>>

\* ------------------------------------------------------------- system
\* the root commit, MaxAhead commits on top of it, and a commit of an
\* unrelated history; the comparison branch is at the root or unrelated; an
\* earlier squash of this second may have left its fallback branch behind;
\* the user has checked out one of the branches
InitCommits ==
  [i \in 1..(MaxAhead + 2) |->
     [parent |-> IF i = MaxAhead + 2 THEN 0 ELSE i - 1, msg |-> <<>>]]

Init ==
  /\ commits = InitCommits
  /\ \E cur \in {Feature, Plain}, tip \in 1..(MaxAhead + 1),
        base \in {1, MaxAhead + 2}, left \in BOOLEAN :
       /\ refs = LET two == Put(Put(<<>>, Develop, base), cur, tip)
                 IN IF left
                    THEN Put(two, FallbackName(cur, generateTimestamp(0)), tip)
                    ELSE two
  /\ head \in DOMAIN refs
  /\ staged \in BOOLEAN
  /\ unstaged \in BOOLEAN
  /\ remote = <<>>
  /\ clock = 0
  /\ pc = "idle"
  /\ command = "none"
  /\ comparableBranch = <<>>
  /\ forcePush = FALSE
  /\ commitMessage = <<>>
  /\ currentBranch = <<>>
  /\ diff = 0
  /\ fallbackBranch = <<>>
  /\ message = <<>>
  /\ branches = <<>>
  /\ next = 1
  /\ result = "none"
  /\ exitCode = 0
  /\ logged = -1
  /\ calls = <<>>
  /\ entry = [commits |-> commits, refs |-> refs, head |-> head,
              staged |-> staged, unstaged |-> unstaged, remote |-> remote]
  /\ prev = [command |-> "none", comparableBranch |-> <<>>, head |-> <<>>,
             result |-> "none"]
  /\ runs = 0

Next ==
  \/ InvokeSquash
  \/ SquashStatus
  \/ SquashCurrentBranch
  \/ SquashCount
  \/ SquashNewBranch
  \/ SquashResetSoft
  \/ SquashAddAll
  \/ SquashCommit
  \/ SquashPushForce
  \/ InvokeClean
  \/ CleanList
  \/ CleanDelete
  \/ InvokeCommitAll
  \/ CommitAllCurrentBranch
  \/ CommitAllAddAll
  \/ CommitAllCommit
  \/ Exit

Spec == Init /\ [][Next]_vars

\* ------------------------------------------------------------- properties
\* the gateway operations that change the repository
Mutating ==
  {"NewBranch", "ResetSoft", "AddAll", "Commit", "PushForce",
   "DeleteLocalBranch"}

\* the running command has changed nothing and has tried to change nothing
NoMutation ==
  /\ Snapshot = entry
  /\ \A i \in 1..Len(calls) : calls[i].op \notin Mutating

Did(op, ok) == \E i \in 1..Len(calls) : calls[i] = Call(op, ok)
SomeCallFailed == \E i \in 1..Len(calls) : ~calls[i].ok
\* the message of the commit the checked-out branch points at
TipMessage == commits[refs[head]].msg
\* the local branches with the fallback prefix when the command began
FallbacksAtEntry == {b \in DOMAIN entry.refs : HasPrefix(b, KkFallback)}

\* C1: a squash started on a dirty tree, or with the comparison branch equal
\* to the checked-out branch, never gets past its two checks, changes nothing
\* in the repository (no fallback branch, reset, staging, commit or push) and
\* returns an error (exit code 1).
C1_PreconditionFailureChangesNothing ==
  (command = "squash" /\
   (entry.staged \/ entry.unstaged \/ comparableBranch = entry.head))
  => /\ pc \in {"sq_status", "sq_branch", "done"}
     /\ NoMutation
     /\ (pc = "done" => result = "err" /\ exitCode = 1)

\* a dirty tree: the status query worked, printed a change, and squash failed
C1_Witness_DirtyTreeRejected ==
  /\ command = "squash"
  /\ pc = "done"
  /\ entry.unstaged
  /\ calls = <<Call("StatusWithPorcelain", TRUE)>>
  /\ result = "err"

\* C2: once the count query has returned 0 or 1 (so the tree was clean and the
\* comparison branch differs from the current one), squash returns success at
\* once and has changed nothing.
C2_NothingToSquashIsNoOp ==
  (command = "squash" /\ Len(calls) >= 3 /\
   calls[3] = Call("GetCommitsDiffCount", TRUE) /\ diff <= 1)
  => /\ pc = "done"
     /\ Len(calls) = 3
     /\ result = "ok"
     /\ exitCode = 0
     /\ NoMutation
     /\ ~entry.staged /\ ~entry.unstaged /\ comparableBranch # entry.head

\* one commit ahead of the comparison branch: nothing to squash
C2_Witness_OneCommitAhead ==
  /\ command = "squash"
  /\ pc = "done"
  /\ Len(calls) = 3
  /\ diff = 1
  /\ result = "ok"

\* C3: when the count query fails, as it does for a comparison branch git does
\* not know, squash returns an error at that step and nothing has been changed:
\* no fallback branch, reset, staging, commit or push.
C3_CountFailureBeforeMutation ==
  command = "squash" /\ Len(calls) >= 3
  => /\ (comparableBranch \notin DOMAIN entry.refs
           => calls[3] = Call("GetCommitsDiffCount", FALSE))
     /\ (calls[3] = Call("GetCommitsDiffCount", FALSE)
           => /\ pc = "done"
              /\ Len(calls) = 3
              /\ result = "err"
              /\ exitCode = 1
              /\ NoMutation)

\* the comparison branch is unknown to git
C3_Witness_UnknownComparisonBranch ==
  /\ command = "squash"
  /\ pc = "done"
  /\ comparableBranch = Unknown
  /\ Len(calls) = 3
  /\ result = "err"

\* C4: the commit squash creates carries the text given with -m when one is
\* given, and the branch name only when none is given.
C4_SuppliedMessageIsCommitted ==
  (command = "squash" /\ Did("Commit", TRUE))
  => TipMessage = (IF commitMessage # <<>> THEN commitMessage ELSE entry.head)

\* C5: the commit of commitall, and of squash without -m, carries the message
\* derived from the branch name: "[<letters>-<digits>] <rest, '-' as ' '>" for
\* a name of the shape <letters>[/-]<digits>-<rest>, the name itself otherwise.
C5_CommitMessageIsDerived ==
  (command \in {"commitall", "squash"} /\ Did("Commit", TRUE) /\
   commitMessage = <<>>)
  => TipMessage = DerivedMessage(entry.head)

\* what the code does instead: the commit of commitall and of squash carries
\* the name of the checked-out branch unchanged, whatever its shape
CommitMessageIsBranchName ==
  (command \in {"commitall", "squash"} /\ Did("Commit", TRUE))
  => TipMessage = entry.head

\* C6: a squash in which a gateway step failed stops at that step and returns
\* an error (exit code 1).
C6_FailedStepFailsSquash ==
  (command = "squash" /\ pc = "done" /\ SomeCallFailed)
  => /\ ~calls[Len(calls)].ok
     /\ result = "err"
     /\ exitCode = 1

\* C7 as claimed: once the fallback branches are listed, clean returns success
\* having deleted exactly them, and reports their number when there are any.
C7_CleanDeletesAllListed ==
  (command = "clean" /\ pc = "done" /\
   Did("ListBranchesWithPrefix", TRUE))
  => /\ result = "ok"
     /\ DOMAIN refs = DOMAIN entry.refs \ FallbacksAtEntry
     /\ (FallbacksAtEntry # {} => logged = Cardinality(FallbacksAtEntry))

\* C7 as amended: clean deletes only branches with the prefix and touches
\* nothing else; with none listed it returns success and deletes nothing; when
\* every deletion succeeds it returns success, no branch with the prefix
\* remains and it reports their number; when the listing or a deletion fails
\* it returns an error at that step and reports no total.
C7_CleanDeletesOnlyFallbacks ==
  command = "clean"
  => /\ DOMAIN refs \subseteq DOMAIN entry.refs
     /\ DOMAIN entry.refs \ DOMAIN refs \subseteq FallbacksAtEntry
     /\ \A b \in DOMAIN refs : refs[b] = entry.refs[b]
     /\ <<commits, head, staged, unstaged, remote>> =
          <<entry.commits, entry.head, entry.staged, entry.unstaged,
            entry.remote>>
     /\ (pc = "done" /\ ~SomeCallFailed
           => /\ result = "ok"
              /\ exitCode = 0
              /\ DOMAIN refs = DOMAIN entry.refs \ FallbacksAtEntry
              /\ Len(calls) = 1 + Cardinality(FallbacksAtEntry)
              /\ logged = (IF FallbacksAtEntry = {} THEN -1
                           ELSE Cardinality(FallbacksAtEntry)))
     /\ (pc = "done" /\ SomeCallFailed
           => /\ result = "err"
              /\ exitCode = 1
              /\ ~calls[Len(calls)].ok
              /\ logged = -1
              /\ Cardinality(DOMAIN entry.refs \ DOMAIN refs) =
                   Cardinality({i \in 1..Len(calls) :
                                  calls[i] = Call("DeleteLocalBranch", TRUE)}))

\* clean has deleted two fallback branches and reported two
C7_Witness_TwoDeleted ==
  /\ command = "clean"
  /\ pc = "done"
  /\ result = "ok"
  /\ Cardinality(FallbacksAtEntry) = 2
  /\ logged = 2

\* C8: a squash that follows a successful squash of the same branch against
\* the same comparison branch, and whose own git calls all exit zero, finds at
\* most one commit ahead, returns success and changes nothing.
C8_SecondSquashIsNoOp ==
  (command = "squash" /\ pc = "done" /\
   prev.command = "squash" /\ prev.result = "ok" /\
   prev.comparableBranch = comparableBranch /\ prev.head = entry.head /\
   ~SomeCallFailed)
  => /\ result = "ok"
     /\ diff <= 1
     /\ NoMutation

\* C9: squash resets only right after git branch has created the fallback
\* branch; from then on, through every later step and when squash returns, the
\* fallback branch is a new branch named kk-fallback-<current>-<timestamp>
\* that points at the commit the current branch had before the squash.
C9_FallbackKeptAtPreSquashHead ==
  command = "squash"
  => /\ \A i \in 1..Len(calls) :
          calls[i].op = "ResetSoft"
          => i > 1 /\ calls[i - 1] = Call("NewBranch", TRUE)
     /\ (Did("NewBranch", TRUE)
           => /\ fallbackBranch \notin DOMAIN entry.refs
              /\ \E now \in 0..clock :
                   fallbackBranch =
                     KkFallback \o <<"-">> \o entry.head \o <<"-">> \o
                     generateTimestamp(now)
              /\ fallbackBranch \in DOMAIN refs
              /\ refs[fallbackBranch] = entry.refs[entry.head])

\* the commit step failed after the reset: the branch has moved, the fallback
\* branch has not
C9_Witness_FallbackSurvivesFailure ==
  /\ command = "squash"
  /\ pc = "done"
  /\ result = "err"
  /\ Did("ResetSoft", TRUE)
  /\ calls[Len(calls)] = Call("Commit", FALSE)
  /\ refs[head] # refs[fallbackBranch]

\* C10: throughout a squash and when it returns, the checked-out branch is the
\* one that was checked out when it began, and it is not the fallback branch.
C10_CheckedOutBranchUnchanged ==
  command = "squash" => head = entry.head /\ head # fallbackBranch

\* a complete squash: fallback created, commits squashed into one
C10_Witness_SquashCompleted ==
  /\ command = "squash"
  /\ pc = "done"
  /\ result = "ok"
  /\ Did("NewBranch", TRUE)
  /\ Did("Commit", TRUE)
  /\ fallbackBranch \in DOMAIN refs
====
